---- MODULE Spec2Model ----
(***************************************************************************)
(* The Lisp interpreter of src/lisp.cpp as a state machine: the read loop  *)
(* of main, the tokenize loop one iteration per step, the recursive        *)
(* descent parser as recursive operators, and eval one branch per step     *)
(* with the pending C++ calls of eval kept on an explicit stack (kont).    *)
(*                                                                         *)
(* A std::string is a sequence of one-character strings.  A double is an   *)
(* integer count of hundredths (1.5 is 150), exact for the literals used.  *)
(***************************************************************************)
EXTENDS Integers, Sequences, FiniteSets

VARIABLES
    stdin,      \* the lines std::getline has still to deliver
    pc,         \* where main is: "read", "lex", "parse", "eval", "caught", "crashed", "exit"
    code,       \* tokenize: the line being lexed
    i,          \* tokenize: the cursor (0-based, as in the source)
    tokens,     \* tokenize: the tokens pushed so far
    pos,        \* parse: the cursor after parseExpression returned
    mode,       \* eval: "eval" (entering eval(ctl, cenv)), "ret" (a call of eval returned val),
                \*       "args" (at the head of the argument loop), "idle"
    ctl,        \* eval: the expression being evaluated
    cenv,       \* eval: the environment it is evaluated in (an index into envs)
    val,        \* eval: the value just returned
    kont,       \* eval: the calls of eval waiting for a nested call, innermost first
    envs,       \* every Environment made so far; envs[1] is globalEnv
    err,        \* what() of the exception in flight or caught
    out,        \* what main printed last
    envBefore   \* globalEnv's bindings when the current line was read

vars == <<stdin, pc, code, i, tokens, pos, mode, ctl, cenv, val, kont, envs, err, out, envBefore>>

lexVars == <<code, i, tokens>>
evalVars == <<mode, ctl, cenv, val, kont>>

----------------------------------------------------------------------------
(* Bounds *)

\* The tokens the vector can hold before push_back runs out of memory.
MaxTokens == 24
\* The longest line of the lexer's own specification.
MaxLen == 4
\* The longest token sequence of the parser's own specification.
MaxToks == 4
\* The longest input made of core lines.
MaxLines == 3

----------------------------------------------------------------------------
(* Characters *)

Digits == {"0", "1", "2", "3", "4", "5", "6", "7", "8", "9"}
Letters == {"a", "b", "c", "d", "e", "f", "g", "h", "i", "j", "k", "l", "m",
            "n", "o", "p", "q", "r", "s", "t", "u", "v", "w", "x", "y", "z",
            "A", "B", "C", "D", "E", "F", "G", "H", "I", "J", "K", "L", "M",
            "N", "O", "P", "Q", "R", "S", "T", "U", "V", "W", "X", "Y", "Z"}
Spaces == {" ", "\t"}
\* The operator characters of strchr("+-*/%<>=!", c).
OpChars == {"+", "-", "*", "/", "%", "<", ">", "=", "!"}

isspace(c) == c \in Spaces
isdigit(c) == c \in Digits
isalpha(c) == c \in Letters
isalnum(c) == isalpha(c) \/ isdigit(c)
isOpChar(c) == c \in OpChars

\* code[k] for a 0-based k; std::string's operator[] yields the NUL at k = length.
CharAt(s, k) == IF k < Len(s) THEN s[k + 1] ELSE "NUL"

DigitVal(c) ==
    CASE c = "0" -> 0 [] c = "1" -> 1 [] c = "2" -> 2 [] c = "3" -> 3 [] c = "4" -> 4
      [] c = "5" -> 5 [] c = "6" -> 6 [] c = "7" -> 7 [] c = "8" -> 8 [] c = "9" -> 9

----------------------------------------------------------------------------
(* Expression: std::variant<double, std::string, std::vector<ExprPtr>, shared_ptr<Function>> *)

Num(n) == [num |-> n]
Sym(s) == [sym |-> s]
List(xs) == [list |-> xs]
Fn(f) == [fn |-> f]
\* A null ExprPtr.
Nil == [nil |-> TRUE]

isSymbol(e) == "sym" \in DOMAIN e
isNumber(e) == "num" \in DOMAIN e
isList(e) == "list" \in DOMAIN e
isFunction(e) == "fn" \in DOMAIN e

\* Function's two constructors; a built-in has no params, body or env.
Builtin(name) == [builtin |-> name, params |-> <<>>, body |-> Nil, env |-> 0]
Closure(params, body, env) == [builtin |-> "", params |-> params, body |-> body, env |-> env]

Token(type, value) == [type |-> type, value |-> value]

----------------------------------------------------------------------------
(* tokenize *)

\* The inner loop of the number branch: the first index at or after j that is
\* past the end or holds neither a digit nor a dot.
RECURSIVE NumberEnd(_, _)
NumberEnd(s, j) ==
    IF j < Len(s) /\ (isdigit(CharAt(s, j)) \/ CharAt(s, j) = ".")
    THEN NumberEnd(s, j + 1) ELSE j

\* The inner loop of the symbol branch.
RECURSIVE SymbolEnd(_, _)
SymbolEnd(s, j) ==
    IF j < Len(s) /\ (isalnum(CharAt(s, j)) \/ isOpChar(CharAt(s, j)))
    THEN SymbolEnd(s, j + 1) ELSE j

\* code.substr(start, n)
Substr(s, start, n) == SubSeq(s, start + 1, start + n)

NumberStart(s, k) ==
    isdigit(CharAt(s, k)) \/ (CharAt(s, k) = "-" /\ isdigit(CharAt(s, k + 1)))
SymbolStart(s, k) == isalpha(CharAt(s, k)) \/ isOpChar(CharAt(s, k))

InLoop == pc = "lex" /\ i < Len(code)
\* tokens.push_back still finds memory.
CanPush == Len(tokens) < MaxTokens
\* The branches of the loop body that push a token.
Pushes(s, k) ==
    CharAt(s, k) = "(" \/ CharAt(s, k) = ")" \/ NumberStart(s, k) \/ SymbolStart(s, k)

LexSpace ==
    /\ InLoop
    /\ isspace(CharAt(code, i))
    /\ i' = i + 1
    /\ UNCHANGED <<stdin, pc, code, tokens, pos, evalVars, envs, err, out, envBefore>>

LexOpen ==
    /\ InLoop /\ CanPush
    /\ CharAt(code, i) = "("
    /\ tokens' = Append(tokens, Token("PAREN_OPEN", <<"(">>))
    /\ i' = i + 1
    /\ UNCHANGED <<stdin, pc, code, pos, evalVars, envs, err, out, envBefore>>

LexClose ==
    /\ InLoop /\ CanPush
    /\ CharAt(code, i) = ")"
    /\ tokens' = Append(tokens, Token("PAREN_CLOSE", <<")">>))
    /\ i' = i + 1
    /\ UNCHANGED <<stdin, pc, code, pos, evalVars, envs, err, out, envBefore>>

LexNumber ==
    /\ InLoop /\ CanPush
    /\ NumberStart(code, i)
    /\ LET start == i
           end == NumberEnd(code, i)
       IN  /\ tokens' = Append(tokens, Token("NUMBER", Substr(code, start, end - start)))
           /\ i' = end
    /\ UNCHANGED <<stdin, pc, code, pos, evalVars, envs, err, out, envBefore>>

LexSymbol ==
    /\ InLoop /\ CanPush
    /\ ~NumberStart(code, i)
    /\ SymbolStart(code, i)
    /\ LET start == i
           end == SymbolEnd(code, i)
       IN  /\ tokens' = Append(tokens, Token("SYMBOL", Substr(code, start, end - start)))
           /\ i' = end
    /\ UNCHANGED <<stdin, pc, code, pos, evalVars, envs, err, out, envBefore>>

\* throw std::runtime_error("Unexpected character: ...") leaves tokenize, parse and
\* main's try block.
LexError ==
    /\ InLoop
    /\ LET c == CharAt(code, i)
       IN  ~(isspace(c) \/ Pushes(code, i))
    /\ pc' = "caught"
    /\ err' = "Unexpected character"
    /\ UNCHANGED <<stdin, lexVars, pos, evalVars, envs, out, envBefore>>

\* The loop condition fails: return tokens.
LexReturn ==
    /\ pc = "lex"
    /\ i >= Len(code)
    /\ pc' = "parse"
    /\ UNCHANGED <<stdin, lexVars, pos, evalVars, envs, err, out, envBefore>>

\* The vector cannot grow any more: push_back throws std::bad_alloc, which main
\* catches as a std::exception, or the host ends the process.
LexExhaust ==
    /\ InLoop /\ ~CanPush
    /\ Pushes(code, i)
    /\ \E killed \in BOOLEAN :
          IF killed
          THEN pc' = "crashed" /\ err' = err
          ELSE pc' = "caught" /\ err' = "std::bad_alloc"
    /\ UNCHANGED <<stdin, lexVars, pos, evalVars, envs, out, envBefore>>

LexStep == LexSpace \/ LexOpen \/ LexClose \/ LexNumber \/ LexSymbol \/ LexError
              \/ LexReturn \/ LexExhaust

----------------------------------------------------------------------------
(* std::stod *)

\* The length of the run of digits of s that starts at the 0-based index j.
RECURSIVE DigitRun(_, _)
DigitRun(s, j) == IF j < Len(s) /\ isdigit(CharAt(s, j)) THEN 1 + DigitRun(s, j + 1) ELSE 0

\* The value of a sequence of digits.
RECURSIVE DigitsValue(_)
DigitsValue(ds) ==
    IF ds = <<>> THEN 0 ELSE 10 * DigitsValue(SubSeq(ds, 1, Len(ds) - 1)) + DigitVal(ds[Len(ds)])

\* std::stod(text): converts the longest prefix that is a decimal literal (digits,
\* then at most one dot and more digits) and ignores what follows it; throws
\* std::invalid_argument when that prefix holds no digit.  used is the number of
\* characters converted, val the value in hundredths.
stod(text) ==
    LET n1 == DigitRun(text, 0)
        dot == CharAt(text, n1) = "."
        n2 == IF dot THEN DigitRun(text, n1 + 1) ELSE 0
        int == DigitsValue(Substr(text, 0, n1))
        d1 == IF n2 >= 1 THEN DigitVal(CharAt(text, n1 + 1)) ELSE 0
        d2 == IF n2 >= 2 THEN DigitVal(CharAt(text, n1 + 2)) ELSE 0
    IN  IF n1 + n2 = 0
        THEN [ok |-> FALSE, val |-> 0, used |-> 0]
        ELSE [ok |-> TRUE, val |-> 100 * int + 10 * d1 + d2,
              used |-> IF dot THEN n1 + 1 + n2 ELSE n1]

----------------------------------------------------------------------------
(* parseExpression, parseList *)

\* What a call of the parser hands back: the term and the cursor, or the exception
\* it threw (err), or oob when it read tokens[p] with p >= tokens.size().
Parsed(term, p) == [term |-> term, pos |-> p, err |-> "", oob |-> FALSE]
ParseThrow(msg, p) == [term |-> Nil, pos |-> p, err |-> msg, oob |-> FALSE]
ParseOob(p) == [term |-> Nil, pos |-> p, err |-> "", oob |-> TRUE]

RECURSIVE parseExpression(_, _)
RECURSIVE parseListLoop(_, _, _)

\* The while loop of parseList and what follows it.
parseListLoop(toks, p, list) ==
    IF p < Len(toks) /\ toks[p + 1].type # "PAREN_CLOSE"
    THEN LET r == parseExpression(toks, p)
         IN  IF r.err # "" \/ r.oob THEN r
             ELSE parseListLoop(toks, r.pos, Append(list, r.term))
    ELSE IF p = Len(toks)
         THEN ParseThrow("Missing closing parenthesis", p)
         ELSE IF p > Len(toks)
              THEN ParseOob(p)
              ELSE Parsed(List(list), p + 1)

parseList(toks, p) == parseListLoop(toks, p + 1, <<>>)

parseExpression(toks, p) ==
    IF p >= Len(toks)
    THEN ParseOob(p)
    ELSE LET token == toks[p + 1]
         IN  CASE token.type = "NUMBER" ->
                    LET d == stod(token.value)
                    IN  IF d.ok THEN Parsed(Num(d.val), p + 1)
                        ELSE ParseThrow("stod", p + 1)
               [] token.type = "SYMBOL" -> Parsed(Sym(token.value), p + 1)
               [] token.type = "PAREN_OPEN" -> parseList(toks, p)
               [] OTHER -> ParseThrow("Unexpected token", p)

----------------------------------------------------------------------------
(* Environment *)

Frame(bindings, outer) == [vars |-> bindings, outer |-> outer]

\* Environment::find on frame e of frames: this frame, then outward.
RECURSIVE Find(_, _, _)
Find(frames, e, var) ==
    IF var \in DOMAIN frames[e].vars
    THEN [found |-> TRUE, result |-> frames[e].vars[var]]
    ELSE IF frames[e].outer # 0
         THEN Find(frames, frames[e].outer, var)
         ELSE [found |-> FALSE, result |-> Nil]

\* vars[var] = value on an unordered_map.
MapSet(bindings, var, value) ==
    [x \in (DOMAIN bindings) \cup {var} |-> IF x = var THEN value ELSE bindings[x]]

\* Environment::set on frame e of frames.
EnvSet(frames, e, var, value) ==
    [frames EXCEPT ![e].vars = MapSet(frames[e].vars, var, value)]

----------------------------------------------------------------------------
(* Built-in functions *)

Returned(v) == [err |-> "", value |-> v]
Thrown(msg) == [err |-> msg, value |-> Nil]

RECURSIVE Sum(_)
Sum(args) == IF args = <<>> THEN 0 ELSE args[1].num + Sum(Tail(args))

AllNumbers(args) == \A k \in 1..Len(args) : isNumber(args[k])

\* The lambda registered as "+".
BuiltinAdd(args) ==
    IF ~AllNumbers(args) THEN Thrown("Arguments to '+' must be numbers")
    ELSE Returned(Num(Sum(args)))

\* The lambda registered as "-".
BuiltinSub(args) ==
    IF args = <<>> THEN Thrown("'-' requires at least one argument")
    ELSE IF ~isNumber(args[1]) THEN Thrown("Arguments to '-' must be numbers")
    ELSE IF Len(args) = 1 THEN Returned(Num(0 - args[1].num))
    ELSE IF ~AllNumbers(args) THEN Thrown("Arguments to '-' must be numbers")
    ELSE Returned(Num(args[1].num - Sum(Tail(args))))

\* func->builtin(args)
CallBuiltin(name, args) == IF name = "+" THEN BuiltinAdd(args) ELSE BuiltinSub(args)

\* The global frame after addBuiltins.
GlobalBindings ==
    [x \in {<<"+">>, <<"-">>} |-> IF x = <<"+">> THEN Fn(Builtin("+")) ELSE Fn(Builtin("-"))]

----------------------------------------------------------------------------
(* main: the read loop *)

Idle == mode' = "idle" /\ ctl' = Nil /\ cenv' = 0 /\ val' = Nil /\ kont' = <<>>

\* std::getline delivers a line: parse(line) starts with tokenize.
ReadLine ==
    /\ pc = "read"
    /\ stdin # <<>>
    /\ code' = Head(stdin)
    /\ stdin' = Tail(stdin)
    /\ i' = 0
    /\ tokens' = <<>>
    /\ pos' = 0
    /\ pc' = "lex"
    /\ err' = ""
    /\ envBefore' = envs[1].vars
    /\ UNCHANGED <<evalVars, envs, out>>

\* std::getline fails at the end of the input: break, return 0.
EndOfInput ==
    /\ pc = "read"
    /\ stdin = <<>>
    /\ pc' = "exit"
    /\ UNCHANGED <<stdin, lexVars, pos, evalVars, envs, err, out, envBefore>>

\* parse: parseExpression(tokens, pos = 0), then main calls eval(expr, globalEnv).
ParseLine ==
    /\ pc = "parse"
    /\ LET r == parseExpression(tokens, 0)
       IN  /\ ~r.oob
           /\ pos' = r.pos
           /\ IF r.err = ""
              THEN /\ pc' = "eval" /\ err' = err
                   /\ mode' = "eval" /\ ctl' = r.term /\ cenv' = 1
                   /\ val' = Nil /\ kont' = <<>>
              ELSE /\ pc' = "caught" /\ err' = r.err
                   /\ UNCHANGED evalVars
    /\ UNCHANGED <<stdin, lexVars, envs, out, envBefore>>

\* What reading a token outside the vector can turn into.
JunkKinds == {"crash", "throw", "number", "symbol", "list"}
JunkTerm(kind) ==
    CASE kind = "number" -> Num(0)
      [] kind = "symbol" -> Sym(<<"x">>)
      [] OTHER -> List(<<>>)

\* parseExpression read tokens[pos] outside the vector (undefined behaviour): the
\* process dies, or the bytes found there are taken for a token and parse throws
\* or returns some term.
ParseOutOfRange ==
    /\ pc = "parse"
    /\ parseExpression(tokens, 0).oob
    /\ \E kind \in JunkKinds :
          CASE kind = "crash" ->
                  /\ pc' = "crashed" /\ err' = err /\ pos' = pos
                  /\ UNCHANGED evalVars
            [] kind = "throw" ->
                  /\ pc' = "caught" /\ err' = "Unexpected token" /\ pos' = pos
                  /\ UNCHANGED evalVars
            [] OTHER ->
                  /\ pc' = "eval" /\ err' = err /\ pos' = 1
                  /\ mode' = "eval" /\ ctl' = JunkTerm(kind) /\ cenv' = 1
                  /\ val' = Nil /\ kont' = <<>>
    /\ UNCHANGED <<stdin, lexVars, envs, out, envBefore>>

\* The rendering main prints for a result.
Render(result) ==
    IF isNumber(result) THEN [number |-> result.num]
    ELSE IF isSymbol(result) THEN [text |-> result.sym]
    ELSE IF isFunction(result) THEN [text |-> "<function>"]
    ELSE IF isList(result) THEN [text |-> "<list>"]
    ELSE [text |-> "Unknown result type"]

\* eval returned to main: print the result and loop.
PrintResult ==
    /\ pc = "eval"
    /\ mode = "ret"
    /\ kont = <<>>
    /\ out' = Render(val)
    /\ pc' = "read"
    /\ Idle
    /\ UNCHANGED <<stdin, lexVars, pos, envs, err, envBefore>>

\* catch (const std::exception& ex): print the error and loop.
CatchError ==
    /\ pc = "caught"
    /\ out' = [error |-> err]
    /\ pc' = "read"
    /\ UNCHANGED <<stdin, lexVars, pos, evalVars, envs, err, envBefore>>

----------------------------------------------------------------------------
(* eval *)

sDefine == <<"d", "e", "f", "i", "n", "e">>
sLambda == <<"l", "a", "m", "b", "d", "a">>
sIf == <<"i", "f">>
SpecialForms == {sDefine, sLambda, sIf}

\* A call of eval that waits for a nested call of eval to return:
\*   "define": at ExprPtr value = eval(list[2], env), to bind name;
\*   "if":     at ExprPtr cond = eval(list[1], env);
\*   "head":   at ExprPtr funcExpr = eval(first, env);
\*   "args":   at args.push_back(eval(list[idx], env)), func and args so far.
Pending(k, name, list, func, args, idx, env) ==
    [k |-> k, name |-> name, list |-> list, func |-> func, args |-> args,
     idx |-> idx, env |-> env]
NoFunc == Builtin("")

Entering == pc = "eval" /\ mode = "eval"
Returning(k) == pc = "eval" /\ mode = "ret" /\ kont # <<>> /\ kont[1].k = k

\* return v from the running call of eval.
Return(v) == mode' = "ret" /\ val' = v /\ ctl' = Nil /\ cenv' = 0

\* throw std::runtime_error(msg): every pending call of eval is unwound and main's
\* catch clause is entered.
Throw(msg) == pc' = "caught" /\ err' = msg /\ Idle

\* ctl is a non-empty list whose first element is the symbol sym.
HeadedBy(e, sym) ==
    isList(e) /\ e.list # <<>> /\ isSymbol(e.list[1]) /\ e.list[1].sym = sym

\* A symbol: look it up from env outward.
EvalSymbol ==
    /\ Entering
    /\ isSymbol(ctl)
    /\ LET r == Find(envs, cenv, ctl.sym)
       IN  IF r.found
           THEN Return(r.result) /\ UNCHANGED <<pc, err, kont>>
           ELSE Throw("Undefined symbol")
    /\ UNCHANGED <<stdin, lexVars, pos, envs, out, envBefore>>

\* Numbers evaluate to themselves.
EvalNumber ==
    /\ Entering
    /\ isNumber(ctl)
    /\ Return(ctl)
    /\ UNCHANGED <<stdin, pc, lexVars, pos, kont, envs, err, out, envBefore>>

\* The empty list evaluates to itself.
EvalEmptyList ==
    /\ Entering
    /\ isList(ctl)
    /\ ctl.list = <<>>
    /\ Return(ctl)
    /\ UNCHANGED <<stdin, pc, lexVars, pos, kont, envs, err, out, envBefore>>

\* (define var expr): check the syntax, then evaluate expr in env.
EvalDefine ==
    /\ Entering
    /\ HeadedBy(ctl, sDefine)
    /\ LET list == ctl.list
       IN  IF Len(list) # 3 \/ ~isSymbol(list[2])
           THEN Throw("Invalid define syntax")
           ELSE /\ kont' = <<Pending("define", list[2].sym, list, NoFunc, <<>>, 0, cenv)>> \o kont
                /\ ctl' = list[3]
                /\ UNCHANGED <<pc, mode, cenv, val, err>>
    /\ UNCHANGED <<stdin, lexVars, pos, envs, out, envBefore>>

\* The frame from e outward that binds var, or e itself when none does.
RECURSIVE BindingFrame(_, _, _)
BindingFrame(frames, e, var) ==
    IF var \in DOMAIN frames[e].vars \/ frames[e].outer = 0 THEN e
    ELSE BindingFrame(frames, frames[e].outer, var)

\* DefineBind with the bug of assigning where the name is already bound (the
\* nearest frame outward that binds it) instead of in the current frame.
DefineBind_whereBound ==
    /\ Returning("define")
    /\ LET home == BindingFrame(envs, kont[1].env, kont[1].name)
           target == IF kont[1].name \in DOMAIN envs[home].vars THEN home ELSE kont[1].env
       IN  envs' = EnvSet(envs, target, kont[1].name, val)
    /\ kont' = Tail(kont)
    /\ UNCHANGED <<stdin, pc, lexVars, pos, mode, ctl, cenv, val, err, out, envBefore>>

\* expr's value is back: env->set(varName, value); return value.
DefineBind ==
    /\ Returning("define")
    /\ envs' = EnvSet(envs, kont[1].env, kont[1].name, val)
    /\ kont' = Tail(kont)
    /\ UNCHANGED <<stdin, pc, lexVars, pos, mode, ctl, cenv, val, err, out, envBefore>>

\* (lambda (params) body): a Function that keeps params, body and env.
EvalLambda ==
    /\ Entering
    /\ HeadedBy(ctl, sLambda)
    /\ LET list == ctl.list
       IN  IF Len(list) # 3 \/ ~isList(list[2])
           THEN Throw("Invalid lambda syntax")
           ELSE IF \E k \in 1..Len(list[2].list) : ~isSymbol(list[2].list[k])
           THEN Throw("Lambda parameters must be symbols")
           ELSE LET params == [k \in 1..Len(list[2].list) |-> list[2].list[k].sym]
                IN  /\ Return(Fn(Closure(params, list[3], cenv)))
                    /\ UNCHANGED <<pc, err, kont>>
    /\ UNCHANGED <<stdin, lexVars, pos, envs, out, envBefore>>

\* (if cond then else): check the syntax, then evaluate cond in env.
EvalIf ==
    /\ Entering
    /\ HeadedBy(ctl, sIf)
    /\ LET list == ctl.list
       IN  IF Len(list) # 4
           THEN Throw("Invalid if syntax")
           ELSE /\ kont' = <<Pending("if", <<>>, list, NoFunc, <<>>, 0, cenv)>> \o kont
                /\ ctl' = list[2]
                /\ UNCHANGED <<pc, mode, cenv, val, err>>
    /\ UNCHANGED <<stdin, lexVars, pos, envs, out, envBefore>>

\* Truthy with the bug of testing > 0 instead of != 0.
Truthy_positive(cond) == isNumber(cond) /\ cond.num > 0

\* isNumber(cond) && std::get<double>(cond->value) != 0
Truthy(cond) == isNumber(cond) /\ cond.num # 0

\* cond's value is back: return eval(list[2], env) or return eval(list[3], env).
IfBranch ==
    /\ Returning("if")
    /\ ctl' = IF Truthy(val) THEN kont[1].list[3] ELSE kont[1].list[4]
    /\ cenv' = kont[1].env
    /\ mode' = "eval"
    /\ val' = Nil
    /\ kont' = Tail(kont)
    /\ UNCHANGED <<stdin, pc, lexVars, pos, envs, err, out, envBefore>>

\* Any other symbol at the head: function application, ExprPtr funcExpr = eval(first, env).
EvalApplication ==
    /\ Entering
    /\ isList(ctl) /\ ctl.list # <<>>
    /\ isSymbol(ctl.list[1])
    /\ ctl.list[1].sym \notin SpecialForms
    /\ kont' = <<Pending("head", <<>>, ctl.list, NoFunc, <<>>, 0, cenv)>> \o kont
    /\ ctl' = ctl.list[1]
    /\ UNCHANGED <<stdin, pc, lexVars, pos, mode, cenv, val, envs, err, out, envBefore>>

\* The head's value is back: it must be a function; then the argument loop starts.
ApplyHead ==
    /\ Returning("head")
    /\ IF ~isFunction(val)
       THEN Throw("First element is not a function")
       ELSE /\ kont' = <<Pending("args", <<>>, kont[1].list, val.fn, <<>>, 1, kont[1].env)>>
                          \o Tail(kont)
            /\ mode' = "args"
            /\ val' = Nil
            /\ UNCHANGED <<pc, ctl, cenv, err>>
    /\ UNCHANGED <<stdin, lexVars, pos, envs, out, envBefore>>

AtArgs == pc = "eval" /\ mode = "args" /\ kont # <<>> /\ kont[1].k = "args"

\* for (size_t i = 1; i < list.size(); ++i): eval(list[i], env).
ArgEval ==
    /\ AtArgs
    /\ kont[1].idx < Len(kont[1].list)
    /\ mode' = "eval"
    /\ ctl' = kont[1].list[kont[1].idx + 1]
    /\ cenv' = kont[1].env
    /\ UNCHANGED <<stdin, pc, lexVars, pos, val, kont, envs, err, out, envBefore>>

\* An argument's value is back: args.push_back(...), ++i.
ArgPush ==
    /\ Returning("args")
    /\ kont' = <<[kont[1] EXCEPT !.args = Append(@, val), !.idx = @ + 1]>> \o Tail(kont)
    /\ mode' = "args"
    /\ val' = Nil
    /\ UNCHANGED <<stdin, pc, lexVars, pos, ctl, cenv, envs, err, out, envBefore>>

\* Every argument is evaluated and func->builtin is set: return func->builtin(args).
ApplyBuiltin ==
    /\ AtArgs
    /\ kont[1].idx >= Len(kont[1].list)
    /\ kont[1].func.builtin # ""
    /\ LET r == CallBuiltin(kont[1].func.builtin, kont[1].args)
       IN  IF r.err # ""
           THEN Throw(r.err)
           ELSE /\ Return(r.value)
                /\ kont' = Tail(kont)
                /\ UNCHANGED <<pc, err>>
    /\ UNCHANGED <<stdin, lexVars, pos, envs, out, envBefore>>

\* localEnv->set(func->params[k], args[k]) for each k in order, on an empty map.
RECURSIVE BindParams(_, _, _)
BindParams(bindings, params, args) ==
    IF params = <<>> THEN bindings
    ELSE BindParams(MapSet(bindings, params[1], args[1]), Tail(params), Tail(args))

\* The frame of a call of func: std::make_shared<Environment>(func->env) with the
\* parameters bound.
CallFrame(func, args) == Frame(BindParams(<<>>, func.params, args), func.env)

\* ApplyClosure with the bug of binding the parameters in func->env itself and
\* evaluating the body there, with no frame for the call.
ApplyClosure_inCapturedEnv ==
    /\ AtArgs
    /\ kont[1].idx >= Len(kont[1].list)
    /\ kont[1].func.builtin = ""
    /\ LET func == kont[1].func
           args == kont[1].args
       IN  IF Len(args) # Len(func.params)
           THEN Throw("Incorrect number of arguments") /\ envs' = envs
           ELSE /\ envs' = [envs EXCEPT ![func.env].vars = BindParams(@, func.params, args)]
                /\ mode' = "eval"
                /\ ctl' = func.body
                /\ cenv' = func.env
                /\ val' = Nil
                /\ kont' = Tail(kont)
                /\ UNCHANGED <<pc, err>>
    /\ UNCHANGED <<stdin, lexVars, pos, out, envBefore>>

\* ApplyClosure with the bug of dynamic scoping: the call frame hangs off the
\* caller's environment instead of func->env.
ApplyClosure_callerOuter ==
    /\ AtArgs
    /\ kont[1].idx >= Len(kont[1].list)
    /\ kont[1].func.builtin = ""
    /\ LET func == kont[1].func
           args == kont[1].args
       IN  IF Len(args) # Len(func.params)
           THEN Throw("Incorrect number of arguments") /\ envs' = envs
           ELSE /\ envs' = Append(envs, Frame(BindParams(<<>>, func.params, args), kont[1].env))
                /\ mode' = "eval"
                /\ ctl' = func.body
                /\ cenv' = Len(envs) + 1
                /\ val' = Nil
                /\ kont' = Tail(kont)
                /\ UNCHANGED <<pc, err>>
    /\ UNCHANGED <<stdin, lexVars, pos, out, envBefore>>

\* ApplyClosure with the bug of checking the count after the frame is made and
\* the parameters that have an argument are bound.
ApplyClosure_bindThenCheck ==
    /\ AtArgs
    /\ kont[1].idx >= Len(kont[1].list)
    /\ kont[1].func.builtin = ""
    /\ LET func == kont[1].func
           args == kont[1].args
           n == IF Len(args) < Len(func.params) THEN Len(args) ELSE Len(func.params)
           frame == Frame(BindParams(<<>>, SubSeq(func.params, 1, n), SubSeq(args, 1, n)),
                          func.env)
       IN  /\ envs' = Append(envs, frame)
           /\ IF Len(args) # Len(func.params)
              THEN Throw("Incorrect number of arguments")
              ELSE /\ mode' = "eval"
                   /\ ctl' = func.body
                   /\ cenv' = Len(envs) + 1
                   /\ val' = Nil
                   /\ kont' = Tail(kont)
                   /\ UNCHANGED <<pc, err>>
    /\ UNCHANGED <<stdin, lexVars, pos, out, envBefore>>

\* Every argument is evaluated and func is user-defined: check the count, make
\* localEnv, bind the parameters, return eval(func->body, localEnv).
ApplyClosure ==
    /\ AtArgs
    /\ kont[1].idx >= Len(kont[1].list)
    /\ kont[1].func.builtin = ""
    /\ LET func == kont[1].func
           args == kont[1].args
       IN  IF Len(args) # Len(func.params)
           THEN Throw("Incorrect number of arguments") /\ envs' = envs
           ELSE /\ envs' = Append(envs, CallFrame(func, args))
                /\ mode' = "eval"
                /\ ctl' = func.body
                /\ cenv' = Len(envs) + 1
                /\ val' = Nil
                /\ kont' = Tail(kont)
                /\ UNCHANGED <<pc, err>>
    /\ UNCHANGED <<stdin, lexVars, pos, out, envBefore>>

\* EvalNonSymbolHead with the head evaluated like any other application head.
EvalNonSymbolHead_asApplication ==
    /\ Entering
    /\ isList(ctl) /\ ctl.list # <<>>
    /\ ~isSymbol(ctl.list[1])
    /\ kont' = <<Pending("head", <<>>, ctl.list, NoFunc, <<>>, 0, cenv)>> \o kont
    /\ ctl' = ctl.list[1]
    /\ UNCHANGED <<stdin, pc, lexVars, pos, mode, cenv, val, envs, err, out, envBefore>>

\* A non-empty list whose first element is not a symbol.
EvalNonSymbolHead ==
    /\ Entering
    /\ isList(ctl) /\ ctl.list # <<>>
    /\ ~isSymbol(ctl.list[1])
    /\ Throw("First element must be a symbol")
    /\ UNCHANGED <<stdin, lexVars, pos, envs, out, envBefore>>

\* EvalInvalid with a Function term evaluating to itself.
EvalInvalid_selfEval ==
    /\ Entering
    /\ ~isSymbol(ctl) /\ ~isNumber(ctl) /\ ~isList(ctl)
    /\ Return(ctl)
    /\ UNCHANGED <<stdin, pc, lexVars, pos, kont, envs, err, out, envBefore>>

\* Neither a symbol, a number nor a list: the throw that ends eval.
EvalInvalid ==
    /\ Entering
    /\ ~isSymbol(ctl) /\ ~isNumber(ctl) /\ ~isList(ctl)
    /\ Throw("Invalid expression")
    /\ UNCHANGED <<stdin, lexVars, pos, envs, out, envBefore>>

\* The branches of eval that a parsed line can reach: parse builds no Function term,
\* so EvalInvalid is left to the callers that hand eval a term of their own.
EvalStep ==
    \/ EvalSymbol \/ EvalNumber \/ EvalEmptyList
    \/ EvalDefine \/ DefineBind
    \/ EvalLambda
    \/ EvalIf \/ IfBranch
    \/ EvalApplication \/ ApplyHead \/ ArgEval \/ ArgPush \/ ApplyBuiltin \/ ApplyClosure
    \/ EvalNonSymbolHead

----------------------------------------------------------------------------
(* The lines fed to the read loop *)

\* (define x 1)
L_defx == <<"(", "d", "e", "f", "i", "n", "e", " ", "x", " ", "1", ")">>
\* (define f (lambda () x))
L_deff == <<"(", "d", "e", "f", "i", "n", "e", " ", "f", " ", "(", "l", "a", "m", "b", "d", "a", " ", "(", ")", " ", "x", ")", ")">>
\* (define g (lambda (x) (f)))
L_defg == <<"(", "d", "e", "f", "i", "n", "e", " ", "g", " ", "(", "l", "a", "m", "b", "d", "a", " ", "(", "x", ")", " ", "(", "f", ")", ")", ")">>
\* (g 2)
L_g2 == <<"(", "g", " ", "2", ")">>
\* x
L_x == <<"x">>
\* (define m (lambda (x) (lambda (y) (+ x y))))
L_defm == <<"(", "d", "e", "f", "i", "n", "e", " ", "m", " ", "(", "l", "a", "m", "b", "d", "a", " ", "(", "x", ")", " ", "(", "l", "a", "m", "b", "d", "a", " ", "(", "y", ")", " ", "(", "+", " ", "x", " ", "y", ")", ")", ")", ")">>
\* (define a (m 5))
L_defa == <<"(", "d", "e", "f", "i", "n", "e", " ", "a", " ", "(", "m", " ", "5", ")", ")">>
\* (a 3)
L_a3 == <<"(", "a", " ", "3", ")">>
\* (+ (define x 2) y)
L_partial == <<"(", "+", " ", "(", "d", "e", "f", "i", "n", "e", " ", "x", " ", "2", ")", " ", "y", ")">>
\* (f 1)
L_f1 == <<"(", "f", " ", "1", ")">>
\* (f)
L_f0 == <<"(", "f", ")">>
\* (if (- 1) (define y 1) (define z 1))
L_ifneg == <<"(", "i", "f", " ", "(", "-", " ", "1", ")", " ", "(", "d", "e", "f", "i", "n", "e", " ", "y", " ", "1", ")", " ", "(", "d", "e", "f", "i", "n", "e", " ", "z", " ", "1", ")", ")">>
\* (if 0 (define y 1) 3)
L_if0 == <<"(", "i", "f", " ", "0", " ", "(", "d", "e", "f", "i", "n", "e", " ", "y", " ", "1", ")", " ", "3", ")">>
\* (if () y 2)
L_ifnil == <<"(", "i", "f", " ", "(", ")", " ", "y", " ", "2", ")">>
\* (if + y 2.5)
L_iffn == <<"(", "i", "f", " ", "+", " ", "y", " ", "2", ".", "5", ")">>
\* ((lambda (x) x) 1)
L_lamhead == <<"(", "(", "l", "a", "m", "b", "d", "a", " ", "(", "x", ")", " ", "x", ")", " ", "1", ")">>
\* (1 2)
L_numhead == <<"(", "1", " ", "2", ")">>
\* (x 1)
L_x1 == <<"(", "x", " ", "1", ")">>
\* ''
L_empty == <<>>
\* ' '
L_blank == <<" ">>
\* (if -1 1 2)
L_neg == <<"(", "i", "f", " ", "-", "1", " ", "1", " ", "2", ")">>
\* 1.2.3
L_dots == <<"1", ".", "2", ".", "3">>
\* (+ 1 #)
L_hash == <<"(", "+", " ", "1", " ", "#", ")">>
\* (+ 1 2
L_unbal == <<"(", "+", " ", "1", " ", "2">>
\* )
L_close == <<")">>
\* (define s (lambda () (define x 5)))
L_defs == <<"(", "d", "e", "f", "i", "n", "e", " ", "s", " ", "(", "l", "a", "m", "b", "d", "a", " ", "(", ")", " ", "(", "d", "e", "f", "i", "n", "e", " ", "x", " ", "5", ")", ")", ")">>
\* (s)
L_s0 == <<"(", "s", ")">>
\* (lambda (1) x)
L_badlam == <<"(", "l", "a", "m", "b", "d", "a", " ", "(", "1", ")", " ", "x", ")">>
\* (lambda x x)
L_badlam2 == <<"(", "l", "a", "m", "b", "d", "a", " ", "x", " ", "x", ")">>
\* (define 1 2)
L_baddef == <<"(", "d", "e", "f", "i", "n", "e", " ", "1", " ", "2", ")">>
\* (if 1 2)
L_badif == <<"(", "i", "f", " ", "1", " ", "2", ")">>
\* (- 10 1 2.5)
L_sub == <<"(", "-", " ", "1", "0", " ", "1", " ", "2", ".", "5", ")">>
\* (-)
L_sub0 == <<"(", "-", ")">>
\* (- 1 +)
L_subfn == <<"(", "-", " ", "1", " ", "+", ")">>
\* (- + 1)
L_subfn1 == <<"(", "-", " ", "+", " ", "1", ")">>
\* (+ 1 -)
L_addfn == <<"(", "+", " ", "1", " ", "-", ")">>
\* (+)
L_add0 == <<"(", "+", ")">>
\* (+ (g 2) q)
L_callfail == <<"(", "+", " ", "(", "g", " ", "2", ")", " ", "q", ")">>
\* (g)
L_g0 == <<"(", "g", ")">>
\* (define x (define y 1))
L_nested == <<"(", "d", "e", "f", "i", "n", "e", " ", "x", " ", "(", "d", "e", "f", "i", "n", "e", " ", "y", " ", "1", ")", ")">>

\* Sessions that exercise one feature each.
Sessions == {
    <<L_defx, L_deff, L_defg, L_g2, L_x>>,
    <<L_deff, L_defg, L_g2>>,
    <<L_defm, L_defa, L_a3>>,
    <<L_defx, L_partial, L_x>>,
    <<L_partial, L_x>>,
    <<L_defx, L_deff, L_f1, L_f0>>,
    <<L_defg, L_g0, L_f0>>,
    <<L_if0, L_ifnil, L_iffn, L_ifneg>>,
    <<L_defx, L_deff, L_defg, L_callfail, L_x>>,
    <<L_lamhead, L_numhead, L_defx, L_x1>>,
    <<L_empty, L_defx, L_x>>,
    <<L_defx, L_blank, L_x>>,
    <<L_defx, L_neg, L_x>>,
    <<L_dots>>,
    <<L_defx, L_hash, L_unbal, L_close, L_x>>,
    <<L_defx, L_defs, L_s0, L_x>>,
    <<L_badlam, L_badlam2, L_baddef, L_badif>>,
    <<L_sub, L_sub0, L_subfn, L_subfn1, L_addfn, L_add0>>,
    <<L_defx, L_nested, L_x>>
}

\* The lines that are also fed in every order.
CoreLines == {L_defx, L_deff, L_defg, L_defs, L_g2, L_s0, L_f1, L_x, L_partial,
              L_callfail, L_ifneg, L_lamhead}

\* The inputs of the interpreter, what std::cin holds line by line: the sessions,
\* and every sequence of at most MaxLines core lines.
Scripts == Sessions \cup UNION {[1..n -> CoreLines] : n \in 0..MaxLines}

----------------------------------------------------------------------------
(* The interpreter *)

\* main after addBuiltins(globalEnv), before the first std::getline.
Init ==
    /\ stdin \in Scripts
    /\ pc = "read"
    /\ code = <<>>
    /\ i = 0
    /\ tokens = <<>>
    /\ pos = 0
    /\ mode = "idle"
    /\ ctl = Nil
    /\ cenv = 0
    /\ val = Nil
    /\ kont = <<>>
    /\ envs = <<Frame(GlobalBindings, 0)>>
    /\ err = ""
    /\ out = [text |-> ""]
    /\ envBefore = GlobalBindings

Next ==
    \/ ReadLine \/ EndOfInput
    \/ LexStep
    \/ ParseLine \/ ParseOutOfRange
    \/ EvalStep
    \/ PrintResult \/ CatchError

Spec == Init /\ [][Next]_vars

----------------------------------------------------------------------------
(* tokenize on its own: every line of at most MaxLen characters *)

LexAlphabet == {" ", "(", ")", "1", ".", "-", "a", "#"}
LexInputs == UNION {[1..n -> LexAlphabet] : n \in 0..MaxLen}

InitLex ==
    /\ stdin = <<>>
    /\ pc = "lex"
    /\ code \in LexInputs
    /\ i = 0
    /\ tokens = <<>>
    /\ pos = 0
    /\ mode = "idle" /\ ctl = Nil /\ cenv = 0 /\ val = Nil /\ kont = <<>>
    /\ envs = <<Frame(GlobalBindings, 0)>>
    /\ err = ""
    /\ out = [text |-> ""]
    /\ envBefore = GlobalBindings

NextLex == LexStep

SpecLex == InitLex /\ [][NextLex]_vars

----------------------------------------------------------------------------
(* parseExpression on its own: every sequence of at most MaxToks tokens *)

TokenAlphabet == {
    Token("PAREN_OPEN", <<"(">>),
    Token("PAREN_CLOSE", <<")">>),
    Token("NUMBER", <<"1">>),
    Token("NUMBER", <<"1", ".", "5">>),
    Token("NUMBER", <<"1", ".", "2", ".", "3">>),
    Token("SYMBOL", <<"a">>)
}
TokenInputs == UNION {[1..n -> TokenAlphabet] : n \in 0..MaxToks}

InitParse ==
    /\ stdin = <<>>
    /\ pc = "parse"
    /\ code = <<>>
    /\ i = 0
    /\ tokens \in TokenInputs
    /\ pos = 0
    /\ mode = "idle" /\ ctl = Nil /\ cenv = 0 /\ val = Nil /\ kont = <<>>
    /\ envs = <<Frame(GlobalBindings, 0)>>
    /\ err = ""
    /\ out = [text |-> ""]
    /\ envBefore = GlobalBindings

NextParse == ParseLine \/ ParseOutOfRange

SpecParse == InitParse /\ [][NextParse]_vars

----------------------------------------------------------------------------
(* eval on its own: a caller that hands terms straight to eval(expr, globalEnv) *)

\* The longest sequence of calls of eval.
MaxCalls == 3

tX == Sym(<<"x">>)
tF == Sym(<<"f">>)
tOne == Num(100)
\* The Function terms of addBuiltins and of a lambda over the global frame.
tAdd == Fn(Builtin("+"))
tId == Fn(Closure(<<<<"x">>>>, tX, 1))

EvalTerms == {
    tOne,
    tX,
    List(<<>>),
    tAdd,
    tId,
    List(<<Sym(sDefine), tF, List(<<Sym(sLambda), List(<<tX>>), tX>>)>>),
    List(<<tF, tOne>>),
    List(<<tF>>),
    List(<<Sym(sDefine), tX, tId>>),
    List(<<Sym(sIf), tAdd, tOne, Num(0)>>),
    List(<<Sym(sIf), List(<<Sym(<<"-">>), tOne>>), tX, List(<<>>)>>),
    List(<<Sym(<<"+">>), tOne, tId>>),
    List(<<tAdd, tOne, tOne>>)
}
EvalInputs == UNION {[1..n -> EvalTerms] : n \in 0..MaxCalls}

InitEval ==
    /\ stdin \in EvalInputs
    /\ pc = "read"
    /\ code = <<>>
    /\ i = 0
    /\ tokens = <<>>
    /\ pos = 0
    /\ mode = "idle" /\ ctl = Nil /\ cenv = 0 /\ val = Nil /\ kont = <<>>
    /\ envs = <<Frame(GlobalBindings, 0)>>
    /\ err = ""
    /\ out = [text |-> ""]
    /\ envBefore = GlobalBindings

\* The caller evaluates its next term in the global environment.
EvalCall ==
    /\ pc = "read"
    /\ stdin # <<>>
    /\ stdin' = Tail(stdin)
    /\ pc' = "eval"
    /\ mode' = "eval" /\ ctl' = Head(stdin) /\ cenv' = 1 /\ val' = Nil /\ kont' = <<>>
    /\ err' = ""
    /\ envBefore' = envs[1].vars
    /\ UNCHANGED <<lexVars, pos, envs, out>>

NextEval == EvalCall \/ EndOfInput \/ EvalStep \/ EvalInvalid \/ PrintResult \/ CatchError

SpecEval == InitEval /\ [][NextEval]_vars

----------------------------------------------------------------------------
(* Error containment across read-eval cycles *)

\* The line being processed holds (define x ...).
DefinedByLine(x) ==
    \E k \in 1..(Len(tokens) - 1) :
        /\ tokens[k] = Token("SYMBOL", sDefine)
        /\ tokens[k + 1] = Token("SYMBOL", x)

\* The names whose global binding is not the one the cycle started with.
ChangedGlobals ==
    {x \in DOMAIN envs[1].vars : x \notin DOMAIN envBefore \/ envs[1].vars[x] # envBefore[x]}

\* C1 as stated: when a cycle fails with an error, the global environment is
\* exactly the environment before the cycle began (same names, same terms), also
\* when a define sub-expression of the line was evaluated before the failure.
C1_FailedCycleRestoresEnv ==
    pc = "caught" => envs[1].vars = envBefore

\* C1 amended: when a cycle fails with an error, no global name is lost and the
\* only global bindings that differ from those before the cycle are of names a
\* define sub-expression of that line binds (they keep the value bound before the
\* failure: there is no rollback); a line without define leaves the global
\* environment exactly as it was.
C1_FailedCycleKeepsItsDefines ==
    pc = "caught" =>
        /\ DOMAIN envBefore \subseteq DOMAIN envs[1].vars
        /\ \A x \in ChangedGlobals : DefinedByLine(x)

\* A cycle failed after one of its define sub-expressions had bound a global.
C1_Witness ==
    /\ pc = "caught"
    /\ err = "Undefined symbol"
    /\ ChangedGlobals # {}

----------------------------------------------------------------------------
(* Lexical scoping *)

\* The frames from e outward.
RECURSIVE OuterChain(_, _)
OuterChain(frames, e) ==
    IF e = 0 THEN <<>> ELSE <<e>> \o OuterChain(frames, frames[e].outer)

\* The positions of the chain from e whose frame binds name.
Binders(frames, e, name) ==
    {k \in 1..Len(OuterChain(frames, e)) : name \in DOMAIN frames[OuterChain(frames, e)[k]].vars}

\* v is what the nearest frame from e outward binds name to.
ResolvesTo(frames, e, name, v) ==
    /\ Binders(frames, e, name) # {}
    /\ LET ch == OuterChain(frames, e)
           k == CHOOSE n \in Binders(frames, e, name) :
                    \A m \in Binders(frames, e, name) : n <= m
       IN  frames[ch[k]].vars[name] = v

\* C2: a lambda evaluated in environment E yields a closure that holds E; applying
\* a closure makes one new frame whose outer link is the closure's E, whatever the
\* environment of the call, and evaluates the body in that frame; a symbol is
\* resolved from the frame it is evaluated in outward along the outer links, so
\* never in the caller's frame; outer links never change and frames are never
\* removed, so a closure returned by a call still sees that call's frame.
C2_LexicalScoping ==
    [][/\ (Entering /\ HeadedBy(ctl, sLambda) /\ pc' = "eval") =>
              /\ isFunction(val')
              /\ val'.fn.env = cenv
              /\ val'.fn.body = ctl.list[3]
              /\ envs' = envs
       /\ (Len(envs') # Len(envs)) =>
              /\ AtArgs
              /\ kont[1].func.builtin = ""
              /\ envs' = Append(envs, envs'[Len(envs')])
              /\ envs'[Len(envs')].outer = kont[1].func.env
              /\ DOMAIN envs'[Len(envs')].vars =
                     {kont[1].func.params[k] : k \in 1..Len(kont[1].func.params)}
              /\ pc' = "eval" /\ mode' = "eval"
              /\ ctl' = kont[1].func.body
              /\ cenv' = Len(envs')
       /\ \A f \in 1..Len(envs) : f <= Len(envs') /\ envs'[f].outer = envs[f].outer
       /\ (Entering /\ isSymbol(ctl)) =>
              IF pc' = "eval"
              THEN mode' = "ret" /\ ResolvesTo(envs, cenv, ctl.sym, val')
              ELSE Binders(envs, cenv, ctl.sym) = {} /\ err' = "Undefined symbol"
      ]_vars

\* (a 3) was called from the global frame, a being the closure that the call (m 5)
\* returned: its frame hangs off the frame of that finished call, and 5 + 3 = 8.
C2_Witness ==
    /\ pc = "read"
    /\ code = L_a3
    /\ out = [number |-> 800]
    /\ \E f \in 1..Len(envs) : envs[f].outer > 1

----------------------------------------------------------------------------
(* Closure arity *)

\* The argument loop is over and the function is a closure given a number of
\* arguments different from its number of parameters.
ArityMismatch ==
    /\ AtArgs
    /\ kont[1].idx >= Len(kont[1].list)
    /\ kont[1].func.builtin = ""
    /\ Len(kont[1].args) # Len(kont[1].func.params)

\* C6: applying a closure of k parameters to a different number of evaluated
\* arguments fails with "Incorrect number of arguments"; no frame is created, no
\* binding of any frame changes, and the body is not evaluated.
C6_ArityMismatchBindsNothing ==
    [][ArityMismatch =>
           /\ pc' = "caught"
           /\ err' = "Incorrect number of arguments"
           /\ envs' = envs
           /\ mode' = "idle" /\ ctl' = Nil /\ kont' = <<>>
      ]_vars

\* A call with the wrong number of arguments was rejected.
C6_Witness ==
    /\ pc = "caught"
    /\ err = "Incorrect number of arguments"
    /\ code \in {L_f1, L_g0}

----------------------------------------------------------------------------
(* define *)

----------------------------------------------------------------------------
(* if *)

\* C8: a 4-element (if c t e) evaluates c once, in env; when c's value is back
\* exactly one branch is evaluated, in env: t when the value is a Number other than
\* zero (negative included), e in every other case; the other branch is dropped
\* with the pending call and no frame changes.  So the branch not taken has no
\* effect: z, bound only by the dropped branch of (if (- 1) (define y 1) (define z 1)),
\* is never bound.
C8_IfEvaluatesOneBranch ==
    /\ [](\A f \in 1..Len(envs) : <<"z">> \notin DOMAIN envs[f].vars)
    /\ [][/\ (Entering /\ HeadedBy(ctl, sIf) /\ Len(ctl.list) = 4) =>
                 /\ pc' = "eval" /\ mode' = "eval"
                 /\ ctl' = ctl.list[2] /\ cenv' = cenv
                 /\ kont' = <<kont'[1]>> \o kont
                 /\ kont'[1].k = "if" /\ kont'[1].list = ctl.list /\ kont'[1].env = cenv
                 /\ envs' = envs
          /\ Returning("if") =>
                 /\ pc' = "eval" /\ mode' = "eval"
                 /\ cenv' = kont[1].env
                 /\ ctl' = IF isNumber(val)
                           THEN (IF val.num > 0 \/ val.num < 0
                                 THEN kont[1].list[3] ELSE kont[1].list[4])
                           ELSE kont[1].list[4]
                 /\ kont' = Tail(kont)
                 /\ envs' = envs
         ]_vars

\* The condition (- 1) is negative: the consequent (define y 1) ran, the
\* alternative (define z 1) did not.
C8_Witness ==
    /\ pc = "read"
    /\ code = L_ifneg
    /\ out = [number |-> 100]
    /\ <<"y">> \in DOMAIN envs[1].vars
    /\ <<"z">> \notin DOMAIN envs[1].vars

----------------------------------------------------------------------------
(* Function application *)

\* ctl is a non-empty list that is none of the special forms.
IsApplicationForm(e) ==
    /\ isList(e) /\ e.list # <<>>
    /\ ~(isSymbol(e.list[1]) /\ e.list[1].sym \in SpecialForms)

\* eval turned to the first element of ctl, in the current environment.
EvaluatesHead ==
    /\ pc' = "eval" /\ mode' = "eval"
    /\ ctl' = ctl.list[1] /\ cenv' = cenv
    /\ kont' = <<kont'[1]>> \o kont
    /\ kont'[1].k = "head" /\ kont'[1].list = ctl.list /\ kont'[1].env = cenv
    /\ envs' = envs

\* The head's value decides: not a Function, the call fails; a Function, it is
\* the one the arguments are collected for and then handed to.
HeadDecides ==
    Returning("head") =>
        IF isFunction(val)
        THEN /\ pc' = "eval" /\ mode' = "args"
             /\ kont' = <<kont'[1]>> \o Tail(kont)
             /\ kont'[1].k = "args" /\ kont'[1].func = val.fn
             /\ kont'[1].list = kont[1].list /\ kont'[1].env = kont[1].env
             /\ kont'[1].args = <<>> /\ kont'[1].idx = 1
             /\ envs' = envs
        ELSE /\ pc' = "caught" /\ err' = "First element is not a function"
             /\ envs' = envs

\* The function is applied to the values of the remaining elements, in order.
AppliesToArguments ==
    /\ (AtArgs /\ kont[1].idx < Len(kont[1].list)) =>
           /\ mode' = "eval" /\ ctl' = kont[1].list[kont[1].idx + 1] /\ cenv' = kont[1].env
           /\ kont' = kont
    /\ Returning("args") =>
           /\ mode' = "args"
           /\ kont'[1].args = Append(kont[1].args, val)
           /\ kont'[1].idx = kont[1].idx + 1
           /\ kont'[1].func = kont[1].func
    /\ (AtArgs /\ kont[1].idx >= Len(kont[1].list)) =>
           Len(kont[1].args) = Len(kont[1].list) - 1

\* C3 as stated: every non-empty list that is no special form is an application
\* whose first element is evaluated in the current environment whatever its shape;
\* the call fails with "not a function" exactly when that value is no Function,
\* and otherwise the function is applied to the evaluated arguments.
C3_AnyHeadIsEvaluated ==
    [][/\ (Entering /\ IsApplicationForm(ctl)) => EvaluatesHead
       /\ HeadDecides
       /\ AppliesToArguments
      ]_vars

\* C3 amended: a non-empty list whose first element is a Symbol other than define,
\* lambda and if is an application: that symbol is evaluated in the current
\* environment, the call fails with "not a function" exactly when its value is no
\* Function, and otherwise the function is applied to the evaluated arguments.  A
\* non-empty list whose first element is not a Symbol (a list such as a lambda
\* expression or another application, a number) fails with "First element must be
\* a symbol", and its first element is not evaluated.
C3_SymbolHeadIsEvaluated ==
    [][/\ (Entering /\ IsApplicationForm(ctl) /\ isSymbol(ctl.list[1])) => EvaluatesHead
       /\ (Entering /\ IsApplicationForm(ctl) /\ ~isSymbol(ctl.list[1])) =>
              /\ pc' = "caught" /\ err' = "First element must be a symbol"
              /\ mode' = "idle" /\ kont' = <<>>
              /\ envs' = envs
       /\ HeadDecides
       /\ AppliesToArguments
      ]_vars

\* ((lambda (x) x) 1) was rejected.
C3_Witness ==
    /\ pc = "caught"
    /\ err = "First element must be a symbol"
    /\ code = L_lamhead

----------------------------------------------------------------------------
(* Self-evaluating terms *)

\* C9 as stated: a Function term, like a Number and the empty list, evaluates to
\* itself in every environment.
C9_ProcedureEvaluatesToItself ==
    [][(Entering /\ (isFunction(ctl) \/ isNumber(ctl) \/ (isList(ctl) /\ ctl.list = <<>>))) =>
           /\ pc' = "eval" /\ mode' = "ret" /\ val' = ctl
           /\ envs' = envs
      ]_vars

\* C9 amended: a Number term and the empty List term evaluate to themselves; for a
\* Function term (native or closure) eval has no case: evaluate(p, env) fails with
\* "Invalid expression" in every environment, and changes no frame.
C9_ProcedureIsInvalidExpression ==
    [][/\ (Entering /\ (isNumber(ctl) \/ (isList(ctl) /\ ctl.list = <<>>))) =>
              /\ pc' = "eval" /\ mode' = "ret" /\ val' = ctl
              /\ envs' = envs
       /\ (Entering /\ isFunction(ctl)) =>
              /\ pc' = "caught" /\ err' = "Invalid expression"
              /\ mode' = "idle" /\ kont' = <<>>
              /\ envs' = envs
      ]_vars

\* eval was handed a Function term and threw.
C9_Witness ==
    /\ pc = "caught"
    /\ err = "Invalid expression"

----------------------------------------------------------------------------
(* Lexing *)

\* The token an iteration pushed.
LastToken(toks) == toks[Len(toks)]

\* C4: tokenize terminates on every line, returning the tokens or failing with the
\* lex error: every iteration of its loop either moves the cursor forward or
\* leaves the loop, by return or by "Unexpected character"; an iteration that
\* pushes a token moves the cursor by at least one character and the token's text
\* is not empty; a '-' followed by a digit starts one NUMBER token whose text is
\* the '-' and the digits and dots after it.
C4_LexingIsTotal ==
    [][pc = "lex" =>
          /\ pc' = "lex" => i' > i
          /\ pc' # "lex" =>
                \/ pc' = "parse"
                \/ pc' = "caught" /\ err' = "Unexpected character"
          /\ tokens' # tokens =>
                /\ i' > i
                /\ LastToken(tokens').value # <<>>
          /\ (CharAt(code, i) = "-" /\ isdigit(CharAt(code, i + 1))) =>
                /\ tokens' = Append(tokens, LastToken(tokens'))
                /\ LastToken(tokens').type = "NUMBER"
                /\ LastToken(tokens').value =
                       <<"-">> \o Substr(code, i + 1, NumberEnd(code, i + 1) - (i + 1))
      ]_vars

----------------------------------------------------------------------------
(* Parsing *)

\* The index of the token that closes the list opened before the 1-based index k,
\* depth lists being open at k; 0 when the tokens run out first.
RECURSIVE ClosingToken(_, _, _)
ClosingToken(toks, k, depth) ==
    IF k > Len(toks) THEN 0
    ELSE IF toks[k].type = "PAREN_OPEN" THEN ClosingToken(toks, k + 1, depth + 1)
    ELSE IF toks[k].type = "PAREN_CLOSE"
         THEN (IF depth = 1 THEN k ELSE ClosingToken(toks, k + 1, depth - 1))
    ELSE ClosingToken(toks, k + 1, depth)

\* The number of tokens of the one complete expression the tokens start with; 0
\* when they start with none.
ExpressionLength(toks) ==
    IF toks = <<>> THEN 0
    ELSE IF toks[1].type \in {"NUMBER", "SYMBOL"} THEN 1
    ELSE IF toks[1].type = "PAREN_OPEN" THEN ClosingToken(toks, 2, 1)
    ELSE 0

\* C5: for every token sequence, the empty one included, parsing from cursor 0
\* returns one term with the cursor just past the tokens of one complete
\* expression, or fails with "Missing closing parenthesis" or "Unexpected token";
\* it reads no token at an index at or past the length of the sequence.
C5_ParsingIsTotal ==
    [][pc = "parse" =>
          /\ ~parseExpression(tokens, 0).oob
          /\ IF ExpressionLength(tokens) > 0
             THEN pc' = "eval" /\ ctl' # Nil /\ pos' = ExpressionLength(tokens)
             ELSE /\ pc' = "caught"
                  /\ err' \in {"Missing closing parenthesis", "Unexpected token"}
      ]_vars

\* text is a decimal literal: digits, with at most one dot among them.
ValidFloat(text) ==
    /\ \A k \in 1..Len(text) : isdigit(text[k]) \/ text[k] = "."
    /\ \E k \in 1..Len(text) : isdigit(text[k])
    /\ Cardinality({k \in 1..Len(text) : text[k] = "."}) <= 1

\* C10: a NUMBER token whose text is no valid float literal (more than one dot)
\* makes parsing fail; no term comes out of a parse that consumed such a token.
C10_MalformedNumberIsRejected ==
    [][(pc = "parse" /\ pc' # "caught") =>
          \A k \in 1..Len(tokens) :
              (k <= pos' /\ tokens[k].type = "NUMBER") => ValidFloat(tokens[k].value)
      ]_vars

====
